---- MODULE Spec2Model ----
(***************************************************************************)
(* A model of the optimization engine of forex-backtesting                 *)
(* (src/lib/optimizers/optimizer.cpp): the tick loop of                    *)
(* Optimizer::optimize, Optimizer::prepareData with saveTicks,             *)
(* Optimizer::loadData and the configuration builders; of the strategy     *)
(* base class (src/unnamed/part_001, Base.js) and of the rules of the      *)
(* ReversalsCombined strategy (src/unnamed/part_000).                      *)
(*                                                                         *)
(* Each operation has its own specification (SpecOptimize, SpecStrategies, *)
(* SpecPrepare, SpecPooled, SpecLoad, SpecBuild, SpecBase, SpecExpiry,     *)
(* SpecSignals, SpecBacktest, SpecSave); the variables of the other        *)
(* operations stay idle.                                                   *)
(***************************************************************************)
EXTENDS Integers, Sequences, FiniteSets, TLC

(***************************************************************************)
(* Bounds of the model.                                                    *)
(***************************************************************************)
\* Largest number of strategies in the vector the tick loop iterates over.
MaxStrategies == 2
\* Largest dataCount (number of matrix rows) of the tick loop.
MaxRows == 4
\* Largest std::thread::hardware_concurrency() (the pool's maximum size).
MaxThreads == 2
\* Number of studies getStudies() returns.
NumStudies == 2
\* Short inputs of prepareData: every length up to MaxShort, every pattern of gaps.
MaxShort == 4
\* Long inputs of prepareData have HighWater + LowWater + LongTail ticks.
LongTail == 2
\* Largest number of documents stored for the symbol.
MaxStored == 3
\* Largest getDataPropertyCount() (sum of the studies' output-map sizes).
MaxProperties == 3
\* Largest number of axes (keys) of an option specification.
MaxAxes == 2
\* Largest number of candidates of an axis.
MaxCandidates == 2
\* Largest number of configurations handed to optimize.
MaxConfigurations == 3
\* Largest number of positions a strategy is given by addPosition.
MaxPositions == 2
\* Largest number of positions open when the calls of closeExpiredPositions begin.
MaxOpen == 3
\* Largest number of closeExpiredPositions calls on a strategy.
MaxCloseCalls == 2
\* Timestamps of positions and calls are 0..MaxTime.
MaxTime == 1
\* The moving averages and regressions of a data point are 1..MaxLevel.
MaxLevel == 2
\* Largest number of data points handed to ReversalsCombined.backtest.
MaxData == 3
\* Largest number of ticks in a list handed to saveTicks on its own.
MaxSaved == 2
\* The testing and validation groups of a tick are 0..MaxGroup.
MaxGroup == 1

(***************************************************************************)
(* Constants of the program.                                               *)
(***************************************************************************)
\* Line 146: the window size at which the oldest ticks are saved and freed.
HighWater == 2000
\* Lines 148, 154, 161: the number of newest ticks kept (and of ticks deleted).
LowWater == 1000
\* Line 102: the largest timestamp difference that does not restart the window.
MaxGap == 60

VARIABLES
    \* ---- members of Optimizer that several operations use
    dataCount,     \* this->dataCount
    dataIndex,     \* this->dataIndex: column name -> column position
    \* ---- Optimizer::optimize, the tick loop (lines 401-418)
    pc,            \* position of the main thread in optimize
    configurationIterator, \* position of configurationIterator in the argument
                   \* `configurations` (1-based)
    strategies,    \* the vector `strategies`: <<1, .., n>>, one id per instance
    threadCount,   \* std::thread::hardware_concurrency()
    i,             \* the loop counter `i` of optimize
    strategyIterator, \* position of strategyIterator in `strategies` (1-based)
    poolQueue,     \* tasks handed to pool.execute and not yet started (FIFO)
    poolRunning,   \* tasks a worker is running
    scheduled,     \* rows for which the loop body was entered, in order
    submitted,     \* every task ever handed to pool.execute
    received,      \* per strategy: rows whose backtest(data[row]) was started, in order
    completed,     \* every task whose backtest has returned
    \* ---- Optimizer::prepareData (lines 71-169) and saveTicks (lines 39-69)
    prepPc,        \* position of the main thread in prepareData
    ticks,         \* the argument `ticks`, as segments of equally spaced ticks
    tickIterator,  \* position of tickIterator in `ticks` (1-based); the tick's id
    cumulativeTicks, \* the window `cumulativeTicks`, a list of tick ids
    pendingStudies,  \* studies whose tick() task is in the pool, not yet completed
    studyView,     \* per study: the window its last tick() read through setData
    saveCalls,     \* the non-empty lists passed to saveTicks, in call order
    failedWrites,  \* the calls (positions in saveCalls) whose bulk write failed
    warnings,      \* the warnings saveTicks has reported
    freed,         \* the ticks deleted, in order of deletion
    merged,        \* the ticks the study outputs were merged into, in order
    \* ---- Optimizer::loadData (lines 182-270)
    loadPc,        \* position in loadData
    storedRows,    \* the stored documents of the symbol by ascending timestamp: of
                   \* each, the field names of its "data" subdocument in order
    countFails,    \* whether mongoc_collection_count fails (returns -1)
    dataPropertyCount, \* getDataPropertyCount(): the allocated width of a row
    data,          \* this->data: the rows allocated so far, column c at [c + 1]
    dataPointIndex,    \* the local dataPointIndex
    outOfBounds,   \* the writes <<row, column>> that fell outside the row's allocation
    \* ---- Optimizer::buildMapConfigurations, buildConfigurations (lines 272-379)
    buildPc,       \* position in buildConfigurations
    options,       \* the argument `options`: the axes in key order, each the
                   \* sequence of its candidates (field -> string or double)
    entryIndex,    \* dataIndex as it was when buildConfigurations was called
    results,       \* *results: the MapConfiguration pointers pushed, in order
    mapObjects,    \* the MapConfiguration objects on the heap, by pointer
    configurations, \* the vector `configurations` of buildConfigurations
    \* ---- a strategy, Base (part_001 lines 3-125)
    basePc,        \* "idle", or "live" once the strategy is constructed
    positionsMade, \* the position objects handed to addPosition, by id
    openPositions, \* this.openPositions: position ids
    profitLoss,    \* this.profitLoss
    winCount,      \* this.winCount
    loseCount,     \* this.loseCount
    consecutiveLosses,        \* this.consecutiveLosses
    maximumConsecutiveLosses, \* this.maximumConsecutiveLosses
    minimumProfitLoss,        \* this.minimumProfitLoss
    clock,         \* the timestamp of the latest closeExpiredPositions call
    closeCalls,    \* the number of closeExpiredPositions calls so far
    returned,      \* what the latest closeExpiredPositions call returned
    settled,       \* the positions settled so far, in order, each with its profit/loss
    reported,      \* what the latest getResults() returned, <<>> before the first
    \* ---- ReversalsCombined.backtest, the rules for one data point (part_000
    \*      lines 117-239)
    signalPc,      \* "idle", "rules" before and "signalled" after the rules
    selfConfigurations, \* self.configurations
    dataPoint,     \* dataPoint: field name -> number, for the fields it has
    previousDataPoint,  \* previousDataPoint: <<>> when undefined, else <<point>>
    verdicts,      \* per configuration: putThisConfiguration and
                   \* callThisConfiguration when line 226 is reached
    putNextTick,   \* putNextTick
    callNextTick,  \* callNextTick
    consoleLog,    \* what console.log has printed: "PUT", "CALL"
    \* ---- ReversalsCombined.backtest, the whole call (part_000 lines 90-243)
    backtestPc,    \* "idle", "loop", "thrown" or "reported"
    backtestData,  \* the argument `data`
    dataPosition,  \* the number of data points forEach has been through
    loggedResults, \* what line 242 has printed, <<>> before
    \* ---- Optimizer::saveTicks with convertTickToBson (lines 15-69), document
    \*      by document
    savePc,        \* position in saveTicks
    saveArgument,  \* the ticks of the argument as they were on entry
    tickObjects,   \* the Tick objects the argument points to, as they are now
    insertionIterator, \* position of insertionIterator (1-based)
    bulkOperation, \* the documents inserted into the bulk operation so far
    bulkWrites     \* the bulk operations executed, each the documents it wrote

varsMembers == <<dataCount, dataIndex>>

varsOptimize == <<pc, configurationIterator, strategies, threadCount, i, strategyIterator,
                  poolQueue, poolRunning, scheduled, submitted, received, completed>>

varsPrepare == <<prepPc, ticks, tickIterator, cumulativeTicks, pendingStudies,
                 studyView, saveCalls, failedWrites, warnings, freed, merged>>

varsLoad == <<loadPc, storedRows, countFails, dataPropertyCount, data, dataPointIndex,
              outOfBounds>>

varsBuild == <<buildPc, options, entryIndex, results, mapObjects, configurations>>

varsBase == <<basePc, positionsMade, openPositions, profitLoss, winCount, loseCount,
              consecutiveLosses, maximumConsecutiveLosses, minimumProfitLoss,
              clock, closeCalls, returned, settled, reported>>

varsSignals == <<signalPc, selfConfigurations, dataPoint, previousDataPoint, verdicts,
                 putNextTick, callNextTick, consoleLog, backtestPc, backtestData,
                 dataPosition, loggedResults>>

varsSave == <<savePc, saveArgument, tickObjects, insertionIterator, bulkOperation,
              bulkWrites>>

vars == <<varsMembers, varsOptimize, varsPrepare, varsLoad, varsBuild, varsBase,
          varsSignals, varsSave>>

\* What each operation leaves alone: the state of the other operations.
outsideOptimize ==
    <<varsMembers, varsPrepare, varsLoad, varsBuild, varsBase, varsSignals, varsSave>>
outsidePrepare ==
    <<varsMembers, varsOptimize, varsLoad, varsBuild, varsBase, varsSignals, varsSave>>
outsideLoad ==
    <<varsOptimize, varsPrepare, varsBuild, varsBase, varsSignals, varsSave>>
outsideBuild ==
    <<dataCount, varsOptimize, varsPrepare, varsLoad, varsBase, varsSignals, varsSave>>
outsideBase ==
    <<varsMembers, varsOptimize, varsPrepare, varsLoad, varsBuild, varsSignals, varsSave>>
outsideSave ==
    <<varsMembers, varsOptimize, varsPrepare, varsLoad, varsBuild, varsBase, varsSignals>>
outsideSignals ==
    <<varsMembers, varsOptimize, varsPrepare, varsLoad, varsBuild, varsBase, varsSave>>

(***************************************************************************)
(* Helpers.                                                                *)
(***************************************************************************)
Range(s) == {s[k] : k \in 1..Len(s)}

Min(a, b) == IF a <= b THEN a ELSE b

\* <<lo, lo+1, .., hi>>
Interval(lo, hi) == [k \in 1..(IF hi >= lo THEN hi - lo + 1 ELSE 0) |-> lo + k - 1]

\* The value the field at position k of stored document r holds.
StoredValue(r, k) == 10 * r + k

(***************************************************************************)
(* Optimizer::optimize: the tick loop.                                     *)
(*                                                                         *)
(* The loop is modelled for a vector `strategies` of any size up to        *)
(* MaxStrategies, over a matrix `data` of dataCount rows of one column as  *)
(* loadData leaves it.  A task is the lambda of line 406 with its captures *)
(* (strategyIterator, i) taken by value; it reads this->data[i].           *)
(***************************************************************************)
\* The variables of an operation that is not running.
\* An empty std::map.
EmptyMap == [name \in {} |-> 0]

IdleMembers ==
    /\ dataCount = 0
    /\ dataIndex = EmptyMap

IdleOptimize ==
    /\ pc = "idle"
    /\ configurationIterator = 1
    /\ strategies = <<>>
    /\ threadCount = 1
    /\ i = 0
    /\ strategyIterator = 1
    /\ poolQueue = <<>>
    /\ poolRunning = {}
    /\ scheduled = <<>>
    /\ submitted = {}
    /\ received = <<>>
    /\ completed = {}

IdlePrepare ==
    /\ prepPc = "idle"
    /\ ticks = <<>>
    /\ tickIterator = 1
    /\ cumulativeTicks = <<>>
    /\ pendingStudies = {}
    /\ studyView = <<>>
    /\ saveCalls = <<>>
    /\ failedWrites = {}
    /\ warnings = <<>>
    /\ freed = <<>>
    /\ merged = <<>>

IdleLoad ==
    /\ loadPc = "idle"
    /\ storedRows = <<>>
    /\ countFails = FALSE
    /\ dataPropertyCount = 0
    /\ data = <<>>
    /\ dataPointIndex = 0
    /\ outOfBounds = {}

IdleBuild ==
    /\ buildPc = "idle"
    /\ options = <<>>
    /\ entryIndex = EmptyMap
    /\ results = <<>>
    /\ mapObjects = <<>>
    /\ configurations = <<>>

IdleBase ==
    /\ basePc = "idle"
    /\ positionsMade = <<>>
    /\ openPositions = <<>>
    /\ profitLoss = 0
    /\ winCount = 0
    /\ loseCount = 0
    /\ consecutiveLosses = 0
    /\ maximumConsecutiveLosses = 0
    /\ minimumProfitLoss = 0
    /\ clock = 0
    /\ closeCalls = 0
    /\ returned = <<>>
    /\ settled = <<>>
    /\ reported = <<>>

IdleSignals ==
    /\ signalPc = "idle"
    /\ selfConfigurations = <<>>
    /\ dataPoint = EmptyMap
    /\ previousDataPoint = <<>>
    /\ verdicts = <<>>
    /\ putNextTick = FALSE
    /\ callNextTick = FALSE
    /\ consoleLog = <<>>
    /\ backtestPc = "idle"
    /\ backtestData = <<>>
    /\ dataPosition = 0
    /\ loggedResults = <<>>

IdleSave ==
    /\ savePc = "idle"
    /\ saveArgument = <<>>
    /\ tickObjects = <<>>
    /\ insertionIterator = 1
    /\ bulkOperation = <<>>
    /\ bulkWrites = <<>>

Task(s, row) == [strategy |-> s, row |-> row]

InFlight == Range(poolQueue) \cup poolRunning

InitOptimize ==
    /\ pc = "loop"
    /\ configurationIterator = 1
    /\ \E n \in 0..MaxStrategies : strategies = Interval(1, n)
    /\ dataCount \in 0..MaxRows
    /\ dataIndex = EmptyMap
    /\ threadCount \in 1..MaxThreads
    /\ i = 0
    /\ strategyIterator = 1
    /\ poolQueue = <<>>
    /\ poolRunning = {}
    /\ scheduled = <<>>
    /\ submitted = {}
    /\ received = [s \in Range(strategies) |-> <<>>]
    /\ completed = {}
    /\ loadPc = "returned"
    /\ storedRows = [r \in 1..dataCount |-> <<"timestamp">>]
    /\ countFails = FALSE
    /\ dataPropertyCount = 1
    /\ data = [r \in 1..dataCount |-> <<StoredValue(r, 1)>>]
    /\ dataPointIndex = dataCount
    /\ outOfBounds = {}
    /\ IdlePrepare
    /\ IdleBuild
    /\ IdleBase
    /\ IdleSignals
    /\ IdleSave

\* Line 402: the loop test `i < this->dataCount`, entering the body or leaving.
LoopTest ==
    /\ pc = "loop"
    /\ IF i < dataCount
         THEN /\ pc' = "submit"
              /\ strategyIterator' = 1
              /\ scheduled' = Append(scheduled, i)
         ELSE /\ pc' = "done"
              /\ UNCHANGED <<strategyIterator, scheduled>>
    /\ UNCHANGED <<configurationIterator, strategies, threadCount, i, poolQueue,
                   poolRunning, submitted, received, completed>>
    /\ UNCHANGED outsideOptimize

\* Lines 404-410: pool.execute of one strategy's task, or the end of the vector.
Execute ==
    /\ pc = "submit"
    /\ IF strategyIterator <= Len(strategies)
         THEN /\ poolQueue' = Append(poolQueue, Task(strategies[strategyIterator], i))
              /\ submitted' = submitted \cup {Task(strategies[strategyIterator], i)}
              /\ strategyIterator' = strategyIterator + 1
              /\ pc' = pc
         ELSE /\ pc' = "drain"
              /\ UNCHANGED <<poolQueue, submitted, strategyIterator>>
    /\ UNCHANGED <<configurationIterator, strategies, threadCount, i, poolRunning,
                   scheduled, received, completed>>
    /\ UNCHANGED outsideOptimize

\* A pool worker takes the oldest queued task and calls backtest (line 408).
WorkerStart ==
    /\ poolQueue # <<>>
    /\ Cardinality(poolRunning) < threadCount
    /\ LET t == Head(poolQueue) IN
         /\ poolRunning' = poolRunning \cup {t}
         /\ received' = [received EXCEPT ![t.strategy] = Append(@, t.row)]
    /\ poolQueue' = Tail(poolQueue)
    /\ UNCHANGED <<pc, configurationIterator, strategies, threadCount, i,
                   strategyIterator, scheduled, submitted, completed>>
    /\ UNCHANGED outsideOptimize

\* A running backtest returns.
WorkerFinish ==
    /\ \E t \in poolRunning :
         /\ poolRunning' = poolRunning \ {t}
         /\ completed' = completed \cup {t}
    /\ UNCHANGED <<pc, configurationIterator, strategies, threadCount, i,
                   strategyIterator, poolQueue, scheduled, submitted, received>>
    /\ UNCHANGED outsideOptimize

\* pool.drain() of line 413 returns once no task is queued or running.
DrainReturnsEarly == TRUE
DrainReturns == poolQueue = <<>> /\ poolRunning = {}

\* Line 416: `++i` inside the progress computation.
ProgressIncrement(n) == n + 1

\* Line 402: `i++`, the loop's own increment.
LoopIncrement(n) == n + 1

\* Lines 413-418 and the loop increment of line 402.
DrainAndAdvance ==
    /\ pc = "drain"
    /\ DrainReturns
    /\ i' = LoopIncrement(ProgressIncrement(i))
    /\ pc' = "loop"
    /\ UNCHANGED <<configurationIterator, strategies, threadCount, strategyIterator,
                   poolQueue, poolRunning, scheduled, submitted, received, completed>>
    /\ UNCHANGED outsideOptimize

NextOptimize ==
    \/ LoopTest
    \/ Execute
    \/ WorkerStart
    \/ WorkerFinish
    \/ DrainAndAdvance

SpecOptimize == InitOptimize /\ [][NextOptimize]_vars

(***************************************************************************)
(* Optimizer::prepareData and Optimizer::saveTicks.                        *)
(*                                                                         *)
(* A tick is named by its position in the argument `ticks` (its pointer).  *)
(* A list of ticks (the window, a list passed to saveTicks, the ticks      *)
(* deleted) is kept run-length compressed: the sequence of its maximal     *)
(* runs [lo, hi] of consecutive ids, standing for lo, lo+1, .., hi.  The   *)
(* compression is exact: two lists are equal iff their runs are.           *)
(***************************************************************************)
Run(lo, hi) == [lo |-> lo, hi |-> hi]

\* The list lo, .., hi (empty when hi < lo).
Ids(lo, hi) == IF hi < lo THEN <<>> ELSE <<Run(lo, hi)>>

\* size()
RECURSIVE Size(_)
Size(list) ==
    IF list = <<>> THEN 0 ELSE (Head(list).hi - Head(list).lo + 1) + Size(Tail(list))

\* back()
Back(list) == list[Len(list)].hi

\* The list with run r added at its end.
PushRun(list, r) ==
    IF list # <<>> /\ list[Len(list)].hi + 1 = r.lo
      THEN [list EXCEPT ![Len(list)].hi = r.hi]
      ELSE Append(list, r)

\* push_back(id)
PushBack(list, id) == PushRun(list, Run(id, id))

\* The list a followed by the list b.
RECURSIVE Concat(_, _)
Concat(a, b) == IF b = <<>> THEN a ELSE Concat(PushRun(a, Head(b)), Tail(b))

\* The elements at positions from..to (1-based) of the list.
RECURSIVE Slice(_, _, _)
Slice(list, from, to) ==
    IF list = <<>> \/ to < from THEN <<>>
    ELSE LET r == Head(list)
             n == r.hi - r.lo + 1
         IN  IF from > n
               THEN Slice(Tail(list), from - n, to - n)
               ELSE <<Run(r.lo + from - 1, r.lo + Min(to, n) - 1)>>
                      \o Slice(Tail(list), 1, to - n)

\* How many times tick id occurs in the list.
Times(list, id) == Cardinality({k \in 1..Len(list) : list[k].lo <= id /\ id <= list[k].hi})

\* No tick occurs in both lists.
Disjoint(a, b) ==
    \A j \in 1..Len(a), k \in 1..Len(b) : a[j].hi < b[k].lo \/ b[k].hi < a[j].lo

\* The ticks of all the lists of a sequence of lists, in order.
RECURSIVE Flatten(_)
Flatten(lists) == IF lists = <<>> THEN <<>> ELSE Concat(Head(lists), Flatten(Tail(lists)))

(***************************************************************************)
(* The argument `ticks` is given by segments [count, delta]: `count` ticks *)
(* in a row, each `delta` seconds after the tick before it.  The first     *)
(* tick of the input has timestamp 0.                                      *)
(***************************************************************************)
Segment(count, delta) == [count |-> count, delta |-> delta]

RECURSIVE TickCount(_)
TickCount(segments) ==
    IF segments = <<>> THEN 0 ELSE Head(segments).count + TickCount(Tail(segments))

\* The sum of the deltas of the ticks 2..id.
RECURSIVE DeltaSum(_, _)
DeltaSum(segments, id) ==
    IF segments = <<>> \/ id <= 0 THEN 0
    ELSE Head(segments).delta * Min(id, Head(segments).count)
           + DeltaSum(Tail(segments), id - Head(segments).count)

\* (*tick)["timestamp"]
Timestamp(id) == DeltaSum(ticks, id) - DeltaSum(ticks, 1)

Studies == 1..NumStudies

\* The timestamp deltas the short inputs are built from.
Deltas == {1, MaxGap, MaxGap + 1}

\* Short inputs: every length up to MaxShort, every choice of deltas.
ShortInputs ==
    {<<>>} \cup
    UNION {{[k \in 1..n |-> Segment(1, IF k = 1 THEN 0 ELSE d[k])] : d \in [2..n -> Deltas]}
             : n \in 1..MaxShort}

\* Long inputs: ticks MaxGap apart, but for one tick (gapAt, 0 for none) MaxGap + 1
\* after its predecessor.
LongLen == HighWater + LowWater + LongTail
LongInput(gapAt) ==
    IF gapAt = 0
      THEN <<Segment(LongLen, MaxGap)>>
      ELSE <<Segment(gapAt - 1, MaxGap), Segment(1, MaxGap + 1),
             Segment(LongLen - gapAt, MaxGap)>>
LongGapPositions == {0, 2, LowWater + 1, HighWater, HighWater + 1}
LongInputs == {LongInput(g) : g \in LongGapPositions}

InitPrepare ==
    /\ prepPc = "next"
    /\ ticks \in ShortInputs \cup LongInputs
    /\ tickIterator = 1
    /\ cumulativeTicks = <<>>
    /\ pendingStudies = {}
    /\ studyView = [s \in Studies |-> <<>>]
    /\ saveCalls = <<>>
    /\ failedWrites = {}
    /\ warnings = <<>>
    /\ freed = <<>>
    /\ merged = <<>>
    /\ IdleMembers
    /\ IdleOptimize
    /\ IdleLoad
    /\ IdleBuild
    /\ IdleBase
    /\ IdleSignals
    /\ IdleSave

\* saveTicks (lines 39-69): nothing for an empty list (line 40), else one bulk
\* write of the list; the result of the write is not looked at (line 63).
SaveTicks(calls, list) == IF Size(list) = 0 THEN calls ELSE Append(calls, list)

\* Line 63: mongoc_bulk_operation_execute fails or succeeds; its result and
\* bulkOperationError are not looked at, so a failure leaves no other trace.
Executed(failures, calls, callsAfter, failed) ==
    IF failed /\ Len(callsAfter) > Len(calls)
      THEN failures \cup {Len(callsAfter)}
      ELSE failures

\* Line 102: the gap test between the incoming tick and the window's last tick.
GapExceededFrom(tick, previousTick) == Timestamp(tick) - Timestamp(previousTick) >= MaxGap
GapExceeded(tick, previousTick) == Timestamp(tick) - Timestamp(previousTick) > MaxGap

\* Lines 88-131: the next tick is taken; on a gap the window is saved, deleted and
\* emptied; the tick is appended; every study gets the window and its task is
\* handed to the pool.
BeginTick ==
    /\ prepPc = "next"
    /\ tickIterator <= TickCount(ticks)
    /\ LET tick == tickIterator
           flush == /\ Size(cumulativeTicks) > 0
                    /\ GapExceeded(tick, Back(cumulativeTicks))
       IN  IF flush
             THEN /\ saveCalls' = SaveTicks(saveCalls, cumulativeTicks)
                  /\ \E failed \in BOOLEAN :
                       failedWrites' = Executed(failedWrites, saveCalls, saveCalls', failed)
                  /\ freed' = Concat(freed, cumulativeTicks)
                  /\ cumulativeTicks' = PushBack(<<>>, tick)
             ELSE /\ cumulativeTicks' = PushBack(cumulativeTicks, tick)
                  /\ UNCHANGED <<saveCalls, failedWrites, freed>>
    /\ pendingStudies' = Studies
    /\ prepPc' = "studies"
    /\ UNCHANGED <<ticks, tickIterator, studyView, warnings, merged>>
    /\ UNCHANGED outsidePrepare

\* Lines 127-130: a pool worker runs one study's tick(), which reads the window
\* the study was given by setData (line 124).
StudyTick ==
    /\ \E s \in pendingStudies :
         /\ studyView' = [studyView EXCEPT ![s] = cumulativeTicks]
         /\ pendingStudies' = pendingStudies \ {s}
    /\ UNCHANGED <<prepPc, ticks, tickIterator, cumulativeTicks, saveCalls, failedWrites,
                   warnings, freed, merged>>
    /\ UNCHANGED outsidePrepare

\* Line 134: pool.drain() returns once no study's task is queued or running.
StudiesDrainedEarly == TRUE
StudiesDrained == pendingStudies = {}

\* Line 146: the test that starts an eviction.
EvictionDueLate(window) == Size(window) > HighWater
EvictionDue(window) == Size(window) >= HighWater

\* Line 148: the ticks handed to saveTicks by an eviction.
FirstCumulativeTicks(window) == Slice(window, 1, Size(window) - LowWater)

\* Lines 154-157: the ticks an eviction deletes.
EvictionDeletedOneMore(window) == Slice(window, 1, LowWater + 1)
EvictionDeleted(window) == Slice(window, 1, LowWater)

\* Line 161: the window an eviction leaves.
EvictionKept(window) == Slice(window, Size(window) - LowWater + 1, Size(window))

\* Lines 134-166: pool.drain() returns when every study's task has finished; the
\* study outputs are merged into the tick; a window of HighWater ticks is evicted.
FinishTick ==
    /\ prepPc = "studies"
    /\ StudiesDrained
    /\ merged' = PushBack(merged, tickIterator)
    /\ IF EvictionDue(cumulativeTicks)
         THEN /\ saveCalls' = SaveTicks(saveCalls, FirstCumulativeTicks(cumulativeTicks))
              /\ \E failed \in BOOLEAN :
                   failedWrites' = Executed(failedWrites, saveCalls, saveCalls', failed)
              /\ freed' = Concat(freed, EvictionDeleted(cumulativeTicks))
              /\ cumulativeTicks' = EvictionKept(cumulativeTicks)
         ELSE UNCHANGED <<saveCalls, failedWrites, freed, cumulativeTicks>>
    /\ tickIterator' = tickIterator + 1
    /\ prepPc' = "next"
    /\ UNCHANGED <<ticks, pendingStudies, studyView, warnings>>
    /\ UNCHANGED outsidePrepare

\* Lines 88 and 168: the input is exhausted and prepareData returns.
ReturnFromPrepare ==
    /\ prepPc = "next"
    /\ tickIterator > TickCount(ticks)
    /\ prepPc' = "returned"
    /\ UNCHANGED <<ticks, tickIterator, cumulativeTicks, pendingStudies, studyView,
                   saveCalls, failedWrites, warnings, freed, merged>>
    /\ UNCHANGED outsidePrepare

NextPrepare ==
    \/ BeginTick
    \/ StudyTick
    \/ FinishTick
    \/ ReturnFromPrepare

SpecPrepare == InitPrepare /\ [][NextPrepare]_vars

\* The two operations that hand tasks to a thread pool, either of them running.
InitPooled == InitPrepare \/ InitOptimize
NextPooled == NextPrepare \/ NextOptimize
SpecPooled == InitPooled /\ [][NextPooled]_vars

(***************************************************************************)
(* Optimizer::loadData.                                                    *)
(*                                                                         *)
(* A stored document is given by the field names of its "data"             *)
(* subdocument in iteration order; the field at position k of document r   *)
(* holds StoredValue(r, k).  The documents do not change while loadData    *)
(* runs, so the count of line 205 is the number of documents the cursor    *)
(* of line 221 yields.                                                     *)
(***************************************************************************)
\* The "data" subdocuments that occur: field names in iteration order.
FieldOrders ==
    { <<>>,
      <<"timestamp">>,
      <<"timestamp", "close">>,
      <<"close", "timestamp">>,
      <<"timestamp", "close", "rsi">> }

\* What malloc returns: memory that holds no value yet.
Uninitialized == -1

RECURSIVE SequencesUpTo(_, _)
\* The sequences of at most n elements of S.
SequencesUpTo(S, n) ==
    IF n = 0 THEN {<<>>}
    ELSE LET shorter == SequencesUpTo(S, n - 1)
         IN  shorter \cup {Append(q, x) : q \in {t \in shorter : Len(t) = n - 1}, x \in S}

\* std::map operator[] used to assign: the map with key -> value set.
MapSet(map, key, value) ==
    [k \in DOMAIN map \cup {key} |-> IF k = key THEN value ELSE map[k]]

InitLoad ==
    /\ loadPc = "count"
    /\ storedRows \in SequencesUpTo(FieldOrders, MaxStored)
    /\ countFails \in BOOLEAN
    /\ dataPropertyCount \in 0..MaxProperties
    /\ data = <<>>
    /\ dataPointIndex = 0
    /\ outOfBounds = {}
    /\ dataCount = 0
    /\ dataIndex = EmptyMap
    /\ IdleOptimize
    /\ IdlePrepare
    /\ IdleBuild
    /\ IdleBase
    /\ IdleSignals
    /\ IdleSave

\* Line 205: the count of the symbol's documents, -1 when the query fails.
CountDocuments == IF countFails THEN -1 ELSE Len(storedRows)

\* Line 207: the test that makes loadData throw.
NoDataPoints(count) == count < 0

\* Lines 196-221: the documents are counted; a negative count throws; the array
\* of row pointers is allocated and the cursor opened.
CountRows ==
    /\ loadPc = "count"
    /\ dataCount' = CountDocuments
    /\ loadPc' = IF NoDataPoints(CountDocuments) THEN "thrown" ELSE "rows"
    /\ UNCHANGED <<dataIndex, storedRows, countFails, dataPropertyCount, data,
                   dataPointIndex, outOfBounds>>
    /\ UNCHANGED outsideLoad

\* Line 245: the test under which the document's fields are entered in dataIndex.
BuildsIndex(count, rowIndex) == count = 0

\* Lines 237-254 for the fields 1..k of document r: the row after the writes that
\* fall inside its allocation.
RECURSIVE RowAfter(_, _, _)
RowAfter(row, r, k) ==
    IF k = 0 THEN row
    ELSE LET before == RowAfter(row, r, k - 1)
         IN  IF k - 1 < dataPropertyCount
               THEN [before EXCEPT ![k] = StoredValue(r, k)]
               ELSE before

\* Lines 245-251 for the fields 1..k of a document with the given field names.
RECURSIVE IndexAfter(_, _, _)
IndexAfter(index, names, k) ==
    IF k = 0 THEN index
    ELSE MapSet(IndexAfter(index, names, k - 1), names[k], k - 1)

\* Lines 224-261: one document of the cursor is copied into a newly allocated
\* row.  A write at a column past the allocation is undefined behaviour: the
\* program crashes or goes on with the heap overwritten.
LoadRow ==
    /\ loadPc = "rows"
    /\ dataPointIndex < Len(storedRows)
    /\ LET r == dataPointIndex + 1
           names == storedRows[r]
           fresh == [c \in 1..dataPropertyCount |-> Uninitialized]
           outside == {<<dataPointIndex, k - 1>> : k \in {j \in 1..Len(names) : j - 1 >= dataPropertyCount}}
       IN  /\ data' = Append(data, RowAfter(fresh, r, Len(names)))
           /\ dataIndex' = IF BuildsIndex(dataCount, dataPointIndex)
                             THEN IndexAfter(dataIndex, names, Len(names))
                             ELSE dataIndex
           /\ outOfBounds' = outOfBounds \cup outside
           /\ \/ loadPc' = "rows"
              \/ outside # {} /\ loadPc' = "crashed"
    /\ dataPointIndex' = dataPointIndex + 1
    /\ UNCHANGED <<dataCount, storedRows, countFails, dataPropertyCount>>
    /\ UNCHANGED outsideLoad

\* Lines 224 and 263-270: the cursor is exhausted and loadData returns.
ReturnFromLoad ==
    /\ loadPc = "rows"
    /\ dataPointIndex >= Len(storedRows)
    /\ loadPc' = "returned"
    /\ UNCHANGED <<dataCount, dataIndex, storedRows, countFails, dataPropertyCount, data,
                   dataPointIndex, outOfBounds>>
    /\ UNCHANGED outsideLoad

NextLoad ==
    \/ CountRows
    \/ LoadRow
    \/ ReturnFromLoad

SpecLoad == InitLoad /\ [][NextLoad]_vars

(***************************************************************************)
(* Optimizer::buildMapConfigurations and Optimizer::buildConfigurations.   *)
(*                                                                         *)
(* `options` is a std::map from axis name to ConfigurationOption: here the *)
(* axes in the map's (sorted) key order.  A candidate maps field names to  *)
(* a boost::variant<std::string, double>; a MapConfiguration maps field    *)
(* names to an int (line 294) or a double (line 297).                      *)
(***************************************************************************)
Column(name) == [type |-> "string", name |-> name]
Literal(number) == [type |-> "double", value |-> number]
IntValue(n) == [type |-> "int", value |-> n]
DoubleValue(d) == [type |-> "double", value |-> d]

\* The axis names that occur, in key order, and the candidates each may hold.
AxisNames == <<"rsi", "sma13", "stochastic">>

CandidatesOf(axisName) ==
    CASE axisName = "rsi" ->
           { [f \in {"rsi", "rsiOverbought"} |->
                IF f = "rsi" THEN Column("rsi7") ELSE Literal(70)],
             [f \in {"rsi", "rsiOverbought"} |->
                IF f = "rsi" THEN Column("rsi14") ELSE Literal(80)],
             [f \in {"rsiOverbought"} |-> Literal(77)] }
      [] axisName = "sma13" ->
           { [f \in {"sma13"} |-> Column("sma13")],
             [f \in {"sma13"} |-> Literal(13)],
             EmptyMap }
      [] OTHER ->
           { [f \in {"stochasticK", "stochasticOverbought"} |->
                IF f = "stochasticK" THEN Column("stochastic14K") ELSE Literal(80)],
             EmptyMap }

\* The option specifications of the first n axis names, each axis with up to
\* MaxCandidates candidates.
RECURSIVE SpecificationsOf(_)
SpecificationsOf(n) ==
    IF n = 0 THEN {<<>>}
    ELSE LET before == SpecificationsOf(n - 1)
             axes == SequencesUpTo(CandidatesOf(AxisNames[n]), MaxCandidates)
         IN  {Append(o, axis) : o \in before, axis \in axes}

OptionSpecifications(maxAxes) ==
    UNION {SpecificationsOf(n) : n \in 0..Min(maxAxes, Len(AxisNames))}

\* The field names in the order a std::map iterates them.
FieldOrder ==
    <<"rsi", "rsiOverbought", "sma13", "stochasticK", "stochasticOverbought">>

\* The default arguments of buildMapConfigurations (declared in optimizer.h): the
\* first axis, a new empty result vector, a new empty MapConfiguration.
DefaultOptionIndex == 0
DefaultResults == <<>>
DefaultCurrent == EmptyMap

\* The pointer `current`: the one MapConfiguration every recursive call is given.
CurrentPointer == 1

\* this->dataIndex[name] (line 294): std::map operator[] enters a missing name
\* with the value 0.
IndexAfterLookup(index, name) ==
    IF name \in DOMAIN index THEN index ELSE MapSet(index, name, 0)

\* Lines 292-299 for the fields FieldOrder[1..k] of a candidate: the state
\* [current, index, results] after the assignments.
RECURSIVE AssignFields(_, _, _)
AssignFields(st, candidate, k) ==
    IF k = 0 THEN st
    ELSE LET before == AssignFields(st, candidate, k - 1)
             field == FieldOrder[k]
         IN  IF field \notin DOMAIN candidate THEN before
             ELSE IF candidate[field].type = "string"
               THEN LET index == IndexAfterLookup(before.index, candidate[field].name)
                    IN  [before EXCEPT
                           !.index = index,
                           !.current = MapSet(@, field, IntValue(index[candidate[field].name]))]
               ELSE [before EXCEPT
                       !.current = MapSet(@, field, DoubleValue(candidate[field].value))]

\* Line 301: whether the recursion goes on to a next axis.
HasNextAxisOffByOne(optionIndex, axisCount) == optionIndex + 2 < axisCount
HasNextAxis(optionIndex, axisCount) == optionIndex + 1 < axisCount

\* Lines 290-307 for the candidates c, c+1, ... of axis optionIndex: every
\* candidate is merged into *current, then the next axis is entered or the
\* pointer `current` is pushed.
RECURSIVE BuildFrom(_, _, _, _)
BuildFrom(opts, optionIndex, c, st) ==
    IF c > Len(opts[optionIndex + 1]) THEN st
    ELSE LET assigned == AssignFields(st, opts[optionIndex + 1][c], Len(FieldOrder))
             after == IF HasNextAxis(optionIndex, Len(opts))
                        THEN BuildFrom(opts, optionIndex + 1, 1, assigned)
                        ELSE [assigned EXCEPT !.results = Append(@, CurrentPointer)]
         IN  BuildFrom(opts, optionIndex, c + 1, after)

\* buildMapConfigurations(options) (lines 272-310) with an index to start from.
BuildMapConfigurations(opts, index) ==
    BuildFrom(opts, DefaultOptionIndex, 1,
              [current |-> DefaultCurrent, index |-> index, results |-> DefaultResults])

InitBuild ==
    /\ buildPc = "start"
    /\ options \in OptionSpecifications(MaxAxes)
    /\ dataIndex = EmptyMap
    /\ entryIndex = dataIndex
    /\ results = <<>>
    /\ mapObjects = <<>>
    /\ configurations = <<>>
    /\ dataCount = 0
    /\ IdleOptimize
    /\ IdlePrepare
    /\ IdleLoad
    /\ IdleBase
    /\ IdleSignals
    /\ IdleSave

\* Line 316: buildMapConfigurations(options).  Without an axis, allKeys[0] of
\* line 287 reads past an empty vector, which is undefined behaviour: the
\* program crashes, or goes on with a key that names no axis, whose
\* ConfigurationOption is empty.
BuildMaps ==
    /\ buildPc = "start"
    /\ IF Len(options) = 0
         THEN /\ buildPc' \in {"crashed", "mapped"}
              /\ results' = DefaultResults
              /\ mapObjects' = [p \in {CurrentPointer} |-> DefaultCurrent]
              /\ UNCHANGED dataIndex
         ELSE LET st == BuildMapConfigurations(options, dataIndex)
              IN  /\ buildPc' = "mapped"
                  /\ results' = st.results
                  /\ mapObjects' = [p \in {CurrentPointer} |-> st.current]
                  /\ dataIndex' = st.index
    /\ UNCHANGED <<options, entryIndex, configurations>>
    /\ UNCHANGED outsideBuild

\* The fields of Configuration read with boost::get<int> (lines 331-357) and with
\* boost::get<double> (lines 360-371).
IntFields == {"sma13", "rsi", "stochasticK"}
DoubleFields == {"rsiOverbought", "stochasticOverbought"}

\* The columns every Configuration gets from dataIndex (lines 324-328).
BasicFields == <<"timestamp", "open", "high", "low", "close">>

\* boost::get<T> throws bad_get when the variant holds the other type.
ThrowsBadGet(map) ==
    \/ \E f \in IntFields \cap DOMAIN map : map[f].type # "int"
    \/ \E f \in DoubleFields \cap DOMAIN map : map[f].type # "double"

\* Lines 324-328: dataIndex after the five lookups.
RECURSIVE IndexAfterBasics(_, _)
IndexAfterBasics(index, k) ==
    IF k = 0 THEN index
    ELSE IndexAfterLookup(IndexAfterBasics(index, k - 1), BasicFields[k])

\* Lines 321-371: the Configuration made from one MapConfiguration: the basic
\* columns, and the value of every field the map holds.
ConfigurationOf(map, index) ==
    [f \in Range(BasicFields) \cup ((IntFields \cup DoubleFields) \cap DOMAIN map) |->
       IF f \in DOMAIN map THEN map[f].value ELSE index[f]]

\* Lines 319-378: every pushed pointer is converted; a bad_get ends the call
\* with an exception.
ConvertConfigurations ==
    /\ buildPc = "mapped"
    /\ LET index == IF Len(results) = 0 THEN dataIndex
                    ELSE IndexAfterBasics(dataIndex, Len(BasicFields))
       IN  /\ dataIndex' = index
           /\ IF \E k \in 1..Len(results) : ThrowsBadGet(mapObjects[results[k]])
                THEN /\ buildPc' = "thrown"
                     /\ UNCHANGED configurations
                ELSE /\ buildPc' = "built"
                     /\ configurations' =
                          [k \in 1..Len(results) |->
                             ConfigurationOf(mapObjects[results[k]], index)]
    /\ UNCHANGED <<options, entryIndex, results, mapObjects>>
    /\ UNCHANGED outsideBuild

NextBuild ==
    \/ BuildMaps
    \/ ConvertConfigurations

SpecBuild == InitBuild /\ [][NextBuild]_vars

(***************************************************************************)
(* Optimizer::optimize from its entry: the preparation of the strategies   *)
(* (lines 383-399), then the tick loop over the vector it leaves.          *)
(*                                                                         *)
(* `strategies` is declared empty (line 384) and nothing ever adds an      *)
(* element to it: line 395 assigns through operator[], which does not      *)
(* change the vector's size.  Writing strategies[i] of an empty vector is  *)
(* undefined behaviour: the program crashes, or goes on with the vector    *)
(* as it was.  No task is ever handed to the pool, the vector being empty. *)
(***************************************************************************)
\* The argument `configurations`: n configurations as buildConfigurations makes
\* them from a MapConfiguration without fields.
ConfigurationsArgument(n) ==
    [k \in 1..n |-> ConfigurationOf(EmptyMap, IndexAfterBasics(EmptyMap, Len(BasicFields)))]

InitStrategies ==
    /\ pc = "prepare"
    /\ \E n \in 0..MaxConfigurations : configurations = ConfigurationsArgument(n)
    /\ configurationIterator = 1
    /\ strategies = <<>>
    /\ dataCount \in 0..MaxRows
    /\ dataIndex = EmptyMap
    /\ threadCount \in 1..MaxThreads
    /\ i = 0
    /\ strategyIterator = 1
    /\ poolQueue = <<>>
    /\ poolRunning = {}
    /\ scheduled = <<>>
    /\ submitted = {}
    /\ received = <<>>
    /\ completed = {}
    /\ buildPc = "idle"
    /\ options = <<>>
    /\ entryIndex = EmptyMap
    /\ results = <<>>
    /\ mapObjects = <<>>
    /\ IdlePrepare
    /\ IdleLoad
    /\ IdleBase
    /\ IdleSignals
    /\ IdleSave

\* Line 395: what `strategies[i] = ...` leaves of the vector: operator[] neither
\* checks i nor adds an element.
AssignStrategy(vector, index, strategy) ==
    IF index < Len(vector) THEN [vector EXCEPT ![index + 1] = strategy] ELSE vector

\* Lines 393-396: one pass of the preparation loop.
CreateStrategy ==
    /\ pc = "prepare"
    /\ configurationIterator <= Len(configurations)
    /\ i' = configurationIterator - 1
    /\ strategies' = AssignStrategy(strategies, i', configurationIterator)
    /\ IF i' < Len(strategies)
         THEN /\ pc' = "prepare"
              /\ configurationIterator' = configurationIterator + 1
         ELSE \/ /\ pc' = "prepare"
                 /\ configurationIterator' = configurationIterator + 1
              \/ /\ pc' = "crashed"
                 /\ UNCHANGED configurationIterator
    /\ UNCHANGED <<threadCount, strategyIterator, poolQueue, poolRunning,
                   scheduled, submitted, received, completed>>
    /\ UNCHANGED outsideOptimize

\* Lines 393 and 398-402: the configurations are exhausted; the tick loop starts
\* with i = 0.
StrategiesPrepared ==
    /\ pc = "prepare"
    /\ configurationIterator > Len(configurations)
    /\ i' = 0
    /\ pc' = "loop"
    /\ UNCHANGED <<configurationIterator, strategies, threadCount, strategyIterator,
                   poolQueue, poolRunning, scheduled, submitted, received, completed>>
    /\ UNCHANGED outsideOptimize

NextStrategies ==
    \/ CreateStrategy
    \/ StrategiesPrepared
    \/ LoopTest
    \/ Execute
    \/ DrainAndAdvance

SpecStrategies == InitStrategies /\ [][NextStrategies]_vars

(***************************************************************************)
(* The strategy base class Base (src/unnamed/part_001).                    *)
(*                                                                         *)
(* JavaScript runs one method at a time, so every method is one step.  A   *)
(* position is an object of positions/Call or positions/Put, which are not *)
(* part of the sources at hand: it is modelled by the lifecycle the design *)
(* gives it (open, then closed as a win, a loss or a tie), with the time   *)
(* it expires and the amount it is worth once closed fixed when it is      *)
(* made.  The price closeExpiredPositions passes on to position.close is   *)
(* not used by Base itself and is left out.  Amounts are whole numbers,    *)
(* which JavaScript's doubles add and compare exactly.                     *)
(***************************************************************************)
\* position.getInvestment(), and what a win pays on top of it.
Investment == 10
Gain == 7

Timestamps == 0..MaxTime

\* What a closed position is worth: nothing for a loss, the investment for a
\* tie, the investment and the gain for a win.
Amounts == {0, Investment, Investment + Gain}

\* A position as addPosition receives it.
NewPosition(expires, amount) ==
    [expires |-> expires, amount |-> amount, isOpen |-> TRUE, closes |-> 0]

\* position.getHasExpired(timestamp)
GetHasExpired(position, timestamp) == timestamp >= position.expires

\* position.close(price, timestamp); `closes` counts the calls.
ClosePosition(position) ==
    [position EXCEPT !.isOpen = FALSE, !.closes = @ + 1]

\* position.getProfitLoss()
GetPositionProfitLoss(position) ==
    IF position.isOpen THEN 0 ELSE position.amount

\* Lines 3-16: the constructor.
InitBase ==
    /\ basePc = "live"
    /\ positionsMade = <<>>
    /\ openPositions = <<>>
    /\ profitLoss = 0
    /\ winCount = 0
    /\ loseCount = 0
    /\ consecutiveLosses = 0
    /\ maximumConsecutiveLosses = 0
    /\ minimumProfitLoss = 99999
    /\ clock = 0
    /\ closeCalls = 0
    /\ returned = <<>>
    /\ settled = <<>>
    /\ reported = <<>>
    /\ IdleMembers
    /\ IdleOptimize
    /\ IdlePrepare
    /\ IdleLoad
    /\ IdleBuild
    /\ IdleSignals
    /\ IdleSave

\* A quotient of two JavaScript numbers, kept as the pair it is made of; a zero
\* divisor makes it NaN or an infinity.
Quotient(dividend, divisor) == [dividend |-> dividend, divisor |-> divisor]

\* The number 0 as a quotient.
Zero == Quotient(0, 1)

\* Lines 44-49: getWinRate.
GetWinRateUnguarded(wins, losses) == Quotient(wins, wins + losses)
GetWinRate(wins, losses) ==
    IF wins + losses = 0 THEN Zero ELSE Quotient(wins, wins + losses)

\* Lines 59-69: getResults.
GetResultsValue ==
    [profitLoss |-> profitLoss,
     winCount |-> winCount,
     loseCount |-> loseCount,
     winRate |-> GetWinRate(winCount, loseCount),
     tradeCount |-> winCount + loseCount,
     maximumConsecutiveLosses |-> maximumConsecutiveLosses,
     minimumProfitLoss |-> minimumProfitLoss]

GetResults ==
    /\ basePc = "live"
    /\ reported' = <<GetResultsValue>>
    /\ UNCHANGED <<basePc, positionsMade, openPositions, profitLoss, winCount, loseCount,
                   consecutiveLosses, maximumConsecutiveLosses, minimumProfitLoss,
                   clock, closeCalls, returned, settled>>
    /\ UNCHANGED outsideBase

\* Lines 71-74: addPosition(position).
AddPosition ==
    /\ basePc = "live"
    /\ Len(positionsMade) < MaxPositions
    /\ \E expires \in Timestamps, amount \in Amounts :
         /\ positionsMade' = Append(positionsMade, NewPosition(expires, amount))
         /\ openPositions' = Append(openPositions, Len(positionsMade) + 1)
    /\ UNCHANGED <<basePc, profitLoss, winCount, loseCount, consecutiveLosses,
                   maximumConsecutiveLosses, minimumProfitLoss, clock, closeCalls,
                   returned, settled, reported>>
    /\ UNCHANGED outsideBase

\* Array.prototype.splice(index, 1) of line 120: the array without the element
\* at the (0-based) index, unchanged when it has no such element.
Splice(array, index) ==
    IF index < Len(array)
      THEN [k \in 1..(Len(array) - 1) |-> IF k <= index THEN array[k] ELSE array[k + 1]]
      ELSE array

\* Line 98: the test that counts a win.
IsWinOrTie(amount, investment) == amount >= investment
IsWin(amount, investment) == amount > investment

\* Line 102: the test that counts a loss.
IsLoss(amount) == amount = 0

\* Lines 100 and 104: consecutiveLosses after a settlement: a win sets it to 0,
\* a loss adds 1.
StreakResetUnlessLoss(won, lost, streak) == IF lost THEN streak + 1 ELSE 0
StreakAfter(won, lost, streak) ==
    LET afterWin == IF won THEN 0 ELSE streak
    IN  IF lost THEN afterWin + 1 ELSE afterWin

\* Lines 88-121 for one position of the copy at the (0-based) index.
SettleAt(st, id, index, timestamp) ==
    IF ~GetHasExpired(st.made[id], timestamp) THEN st
    ELSE LET position == ClosePosition(st.made[id])
             amount == GetPositionProfitLoss(position)
             won == IsWin(amount, Investment)
             lost == IsLoss(amount)
             streak == StreakAfter(won, lost, st.consecutiveLosses)
         IN  [made |-> [st.made EXCEPT ![id] = position],
              open |-> Splice(st.open, index),
              profitLoss |-> (st.profitLoss - Investment) + amount,
              winCount |-> IF won THEN st.winCount + 1 ELSE st.winCount,
              loseCount |-> IF lost THEN st.loseCount + 1 ELSE st.loseCount,
              consecutiveLosses |-> streak,
              maximumConsecutiveLosses |->
                  IF streak > st.maximumConsecutiveLosses
                    THEN streak ELSE st.maximumConsecutiveLosses,
              minimumProfitLoss |->
                  IF amount < st.minimumProfitLoss THEN amount ELSE st.minimumProfitLoss,
              expired |-> Append(st.expired, id),
              settled |-> Append(st.settled, <<id, amount>>)]

\* Lines 85-122: forEach over the copy, from its k-th element on.
RECURSIVE SettleFrom(_, _, _, _)
SettleFrom(st, copy, k, timestamp) ==
    IF k > Len(copy) THEN st
    ELSE SettleFrom(SettleAt(st, copy[k], k - 1, timestamp), copy, k + 1, timestamp)

\* Lines 76-125: closeExpiredPositions(price, timestamp).
CloseExpiredPositions ==
    /\ basePc = "live"
    /\ closeCalls < MaxCloseCalls
    /\ \E timestamp \in clock..MaxTime :
         LET st == SettleFrom([made |-> positionsMade,
                               open |-> openPositions,
                               profitLoss |-> profitLoss,
                               winCount |-> winCount,
                               loseCount |-> loseCount,
                               consecutiveLosses |-> consecutiveLosses,
                               maximumConsecutiveLosses |-> maximumConsecutiveLosses,
                               minimumProfitLoss |-> minimumProfitLoss,
                               expired |-> <<>>,
                               settled |-> settled],
                              openPositions, 1, timestamp)
         IN  /\ positionsMade' = st.made
             /\ openPositions' = st.open
             /\ profitLoss' = st.profitLoss
             /\ winCount' = st.winCount
             /\ loseCount' = st.loseCount
             /\ consecutiveLosses' = st.consecutiveLosses
             /\ maximumConsecutiveLosses' = st.maximumConsecutiveLosses
             /\ minimumProfitLoss' = st.minimumProfitLoss
             /\ returned' = st.expired
             /\ settled' = st.settled
             /\ clock' = timestamp
    /\ closeCalls' = closeCalls + 1
    /\ UNCHANGED <<basePc, reported>>
    /\ UNCHANGED outsideBase

NextBase ==
    \/ AddPosition
    \/ CloseExpiredPositions
    \/ GetResults

SpecBase == InitBase /\ [][NextBase]_vars

(***************************************************************************)
(* closeExpiredPositions on its own: a strategy that has been given up to  *)
(* MaxOpen positions by addPosition, none settled yet, and is then only    *)
(* asked to close the expired ones, at timestamps that do not decrease.    *)
(***************************************************************************)
\* The positions that occur: every expiry, every outcome.
Positions == {NewPosition(expires, amount) : expires \in Timestamps, amount \in Amounts}

InitExpiry ==
    /\ basePc = "live"
    /\ positionsMade \in SequencesUpTo(Positions, MaxOpen)
    /\ openPositions = Interval(1, Len(positionsMade))
    /\ profitLoss = 0
    /\ winCount = 0
    /\ loseCount = 0
    /\ consecutiveLosses = 0
    /\ maximumConsecutiveLosses = 0
    /\ minimumProfitLoss = 99999
    /\ clock = 0
    /\ closeCalls = 0
    /\ returned = <<>>
    /\ settled = <<>>
    /\ reported = <<>>
    /\ IdleMembers
    /\ IdleOptimize
    /\ IdlePrepare
    /\ IdleLoad
    /\ IdleBuild
    /\ IdleSignals
    /\ IdleSave

NextExpiry == CloseExpiredPositions

SpecExpiry == InitExpiry /\ [][NextExpiry]_vars

(***************************************************************************)
(* ReversalsCombined.backtest (src/unnamed/part_000): the rules of lines   *)
(* 117-239, which decide from one data point, the data point before it and *)
(* the strategy's configurations whether to signal a PUT or a CALL.        *)
(*                                                                         *)
(* The rules are a function of these three inputs and are modelled for     *)
(* any data point that reaches them (lines 104-115 come first in the loop  *)
(* body: the call of tick and the test of the hour).                       *)
(*                                                                         *)
(* A value read from an object is <<>> when the object has no such field   *)
(* (undefined) and <<n>> for the number n.                                 *)
(***************************************************************************)
Field(point, name) == IF name \in DOMAIN point THEN <<point[name]>> ELSE <<>>

Number(n) == <<n>>

\* !value: true of undefined and of 0.
FalsyIfZero(value) == value # <<>> /\ value[1] = 0
Falsy(value) == value = <<>> \/ value[1] = 0

\* typeof value === 'number'
IsNumber(value) == value # <<>>

\* a < b and a <= b: false when a or b is undefined.
Less(a, b) == a # <<>> /\ b # <<>> /\ a[1] < b[1]
LessOrEqual(a, b) == a # <<>> /\ b # <<>> /\ a[1] <= b[1]

\* The study outputs the rules read (lines 6-77 name them).
IndicatorFields ==
    <<"ema200", "ema100", "ema50", "sma13", "rsi7",
      "prChannelUpper100_2_195", "prChannelLower100_2_195", "trendPrChannel300_2">>

\* The options a configuration may carry.
RsiOption == [rsi |-> "rsi7", overbought |-> 70, oversold |-> 30]
PrChannelOption ==
    [upper |-> "prChannelUpper100_2_195", lower |-> "prChannelLower100_2_195"]
TrendPrChannelOption == [regression |-> "trendPrChannel300_2"]

\* A configuration: the four flags, and each option as <<>> (not set) or <<option>>.
NoRules ==
    [ema200 |-> FALSE, ema100 |-> FALSE, ema50 |-> FALSE, sma13 |-> FALSE,
     rsi |-> <<>>, prChannel |-> <<>>, trendPrChannel |-> <<>>]
SlowPair == [NoRules EXCEPT !.ema200 = TRUE, !.ema100 = TRUE]
SlowOnly == [NoRules EXCEPT !.ema200 = TRUE]
TrendChain == [SlowPair EXCEPT !.ema50 = TRUE, !.sma13 = TRUE]
RsiOnly == [NoRules EXCEPT !.rsi = <<RsiOption>>]
PrChannelOnly == [NoRules EXCEPT !.prChannel = <<PrChannelOption>>]
TrendPrChannelOnly == [NoRules EXCEPT !.trendPrChannel = <<TrendPrChannelOption>>]
EveryRule ==
    [TrendChain EXCEPT !.rsi = <<RsiOption>>, !.prChannel = <<PrChannelOption>>,
                       !.trendPrChannel = <<TrendPrChannelOption>>]

\* self.configurations: one configuration, or two of the smaller ones.
SmallConfigurations == {NoRules, SlowPair, RsiOnly, PrChannelOnly, TrendPrChannelOnly}
ConfigurationLists ==
    {<<c>> : c \in SmallConfigurations \cup {SlowOnly, TrendChain, EveryRule}}
      \cup {<<c, d>> : c \in SmallConfigurations, d \in SmallConfigurations}

\* The fields of the data point a configuration's rules read.
FieldsRead(configuration) ==
    {name \in Range(IndicatorFields) :
       \/ name = "ema200" /\ configuration.ema200 /\ configuration.ema100
       \/ name = "ema100" /\ configuration.ema100
                          /\ (configuration.ema200 \/ configuration.ema50)
       \/ name = "ema50" /\ configuration.ema50
                         /\ (configuration.ema100 \/ configuration.sma13)
       \/ name = "sma13" /\ configuration.sma13 /\ configuration.ema50
       \/ \E o \in Range(configuration.rsi) : name = o.rsi
       \/ \E o \in Range(configuration.prChannel) : name \in {o.upper, o.lower}
       \/ \E o \in Range(configuration.trendPrChannel) : name = o.regression}

\* The values a field takes in the data points considered; high is 5, low 3.
Levels == 1..MaxLevel
ValuesOf(name) ==
    CASE name = "rsi7" -> {20, 70, 80}
      [] name = "prChannelUpper100_2_195" -> {4, 5}
      [] name = "prChannelLower100_2_195" -> {3, 4}
      [] OTHER -> Levels

BasePoint == [name \in {"high", "low"} |-> IF name = "high" THEN 5 ELSE 3]

\* The data points that have high, low and any of the given fields among the
\* first k indicator fields.
RECURSIVE PointsOver(_, _)
PointsOver(fields, k) ==
    IF k = 0 THEN {BasePoint}
    ELSE LET rest == PointsOver(fields, k - 1)
             name == IndicatorFields[k]
         IN  IF name \notin fields THEN rest
             ELSE rest \cup {MapSet(point, name, v) : point \in rest, v \in ValuesOf(name)}

InitSignals ==
    /\ signalPc = "rules"
    /\ selfConfigurations \in ConfigurationLists
    /\ LET fields == UNION {FieldsRead(selfConfigurations[k]) :
                              k \in 1..Len(selfConfigurations)}
       IN  /\ dataPoint \in PointsOver(fields, Len(IndicatorFields))
           /\ previousDataPoint \in
                {<<>>} \cup {<<point>> : point \in
                               PointsOver(fields \cap {TrendPrChannelOption.regression},
                                          Len(IndicatorFields))}
    /\ verdicts = <<>>
    /\ putNextTick = FALSE
    /\ callNextTick = FALSE
    /\ consoleLog = <<>>
    /\ backtestPc = "idle"
    /\ backtestData = <<>>
    /\ dataPosition = 0
    /\ loggedResults = <<>>
    /\ IdleMembers
    /\ IdleOptimize
    /\ IdlePrepare
    /\ IdleLoad
    /\ IdleBuild
    /\ basePc = "idle"
    /\ positionsMade = <<>>
    /\ openPositions = <<>>
    /\ profitLoss = 0
    /\ winCount = 0
    /\ loseCount = 0
    /\ consecutiveLosses = 0
    /\ maximumConsecutiveLosses = 0
    /\ minimumProfitLoss = 0
    /\ clock = 0
    /\ closeCalls = 0
    /\ returned = <<>>
    /\ settled = <<>>
    /\ reported = <<>>
    /\ IdleSave

\* putThisConfiguration and callThisConfiguration.
Flags(put, call) == [put |-> put, call |-> call]

\* Lines 132, 148, 164: the test that rules a PUT out.
NotDowntrendFlipped(slower, faster) == Less(faster, slower)
NotDowntrend(slower, faster) == Less(slower, faster)

\* Lines 137, 153, 169: the test that rules a CALL out.
NotUptrend(slower, faster) == Less(faster, slower)

\* Lines 125-140, 141-156, 157-172: one pair of moving averages.
TrendRule(flags, enabled, slower, faster) ==
    IF ~enabled THEN flags
    ELSE LET ready == IF Falsy(slower) \/ Falsy(faster) THEN Flags(FALSE, FALSE) ELSE flags
         IN  Flags(ready.put /\ ~NotDowntrend(slower, faster),
                   ready.call /\ ~NotUptrend(slower, faster))

\* Lines 173-189.
RsiRule(flags, option, point) ==
    IF option = <<>> THEN flags
    ELSE LET value == Field(point, option[1].rsi)
         IN  IF IsNumber(value)
               THEN Flags(flags.put /\ ~LessOrEqual(value, Number(option[1].overbought)),
                          flags.call /\ ~LessOrEqual(Number(option[1].oversold), value))
               ELSE Flags(FALSE, FALSE)

\* Lines 190-206.
PrChannelRule(flags, option, point) ==
    IF option = <<>> THEN flags
    ELSE LET upper == Field(point, option[1].upper)
             lower == Field(point, option[1].lower)
         IN  IF ~Falsy(upper) /\ ~Falsy(lower)
               THEN Flags(flags.put /\ ~(Falsy(upper)
                                           \/ LessOrEqual(Field(point, "high"), upper)),
                          flags.call /\ ~(Falsy(lower)
                                            \/ LessOrEqual(lower, Field(point, "low"))))
               ELSE Flags(FALSE, FALSE)

\* Lines 207-223.
TrendPrChannelRule(flags, option, point, previous) ==
    IF option = <<>> THEN flags
    ELSE LET now == Field(point, option[1].regression)
             before == IF previous = <<>> THEN <<>>
                       ELSE Field(previous[1], option[1].regression)
         IN  IF previous # <<>> /\ ~Falsy(now) /\ ~Falsy(before)
               THEN Flags(flags.put /\ ~Less(before, now),
                          flags.call /\ ~Less(now, before))
               ELSE Flags(FALSE, FALSE)

\* Lines 121-224: the flags of one configuration when line 226 is reached.
ThisConfiguration(configuration, point, previous) ==
    LET start == Flags(TRUE, TRUE)
        slow == TrendRule(start, configuration.ema200 /\ configuration.ema100,
                          Field(point, "ema200"), Field(point, "ema100"))
        middle == TrendRule(slow, configuration.ema100 /\ configuration.ema50,
                            Field(point, "ema100"), Field(point, "ema50"))
        fast == TrendRule(middle, configuration.ema50 /\ configuration.sma13,
                          Field(point, "ema50"), Field(point, "sma13"))
        rsi == RsiRule(fast, configuration.rsi, point)
        channel == PrChannelRule(rsi, configuration.prChannel, point)
    IN  TrendPrChannelRule(channel, configuration.trendPrChannel, point, previous)

\* Lines 117-239: the rules of every configuration, the signals of lines 226-227
\* and 233-239, and the data point kept as the previous one (line 231).
ApplyRules ==
    /\ signalPc = "rules"
    /\ verdicts' = [k \in 1..Len(selfConfigurations) |->
                      ThisConfiguration(selfConfigurations[k], dataPoint, previousDataPoint)]
    /\ putNextTick' = \E k \in 1..Len(selfConfigurations) : verdicts'[k].put
    /\ callNextTick' = \E k \in 1..Len(selfConfigurations) : verdicts'[k].call
    /\ consoleLog' = (IF putNextTick' THEN <<"PUT">> ELSE <<>>)
                       \o (IF callNextTick' THEN <<"CALL">> ELSE <<>>)
    /\ previousDataPoint' = <<dataPoint>>
    /\ signalPc' = "signalled"
    /\ UNCHANGED <<selfConfigurations, dataPoint, backtestPc, backtestData, dataPosition,
                   loggedResults>>
    /\ UNCHANGED outsideSignals

NextSignals == ApplyRules

SpecSignals == InitSignals /\ [][NextSignals]_vars

(***************************************************************************)
(* ReversalsCombined.backtest as a whole (part_000 lines 90-243): forEach  *)
(* over the data points, each through the call of tick (line 107), the     *)
(* test of the hour (lines 111-115) and the rules; then the report of      *)
(* line 242.                                                               *)
(*                                                                         *)
(* A method called on the strategy is looked up on                         *)
(* ReversalsCombined.prototype first and on Base.prototype, from which it  *)
(* was made by Object.create (line 88), next.                              *)
(***************************************************************************)
\* The methods ReversalsCombined.prototype defines itself (part_000).
OwnMethods == {"backtest"}

\* The methods of Base.prototype that only throw (part_001 lines 51-57).
NotImplemented == {"tick", "backtest"}

\* Whether a call of the method on a ReversalsCombined throws 'not implemented'.
CallThrows(method) == method \in NotImplemented \ OwnMethods

\* new Date(timestamp).getHours(), the timestamp in milliseconds.
MillisPerHour == 3600000
GetHours(timestamp) == (timestamp \div MillisPerHour) % 24

\* Line 111: the hours without trading.
QuietHour(hour) == hour >= 0 /\ hour < 7

\* The data points of the argument: one in a quiet hour and one outside, with
\* and without an rsi7 above the overbought level.
BacktestPoints ==
    {MapSet(point, "timestamp", hour * MillisPerHour) :
       point \in {BasePoint, MapSet(BasePoint, "rsi7", 80)}, hour \in {0, 8}}

InitBacktest ==
    /\ backtestPc = "loop"
    /\ backtestData \in SequencesUpTo(BacktestPoints, MaxData)
    /\ dataPosition = 0
    /\ loggedResults = <<>>
    /\ signalPc = "idle"
    /\ selfConfigurations \in {<<NoRules>>, <<RsiOnly>>}
    /\ dataPoint = EmptyMap
    /\ previousDataPoint = <<>>
    /\ verdicts = <<>>
    /\ putNextTick = FALSE
    /\ callNextTick = FALSE
    /\ consoleLog = <<>>
    /\ basePc = "live"
    /\ positionsMade = <<>>
    /\ openPositions = <<>>
    /\ profitLoss = 0
    /\ winCount = 0
    /\ loseCount = 0
    /\ consecutiveLosses = 0
    /\ maximumConsecutiveLosses = 0
    /\ minimumProfitLoss = 99999
    /\ clock = 0
    /\ closeCalls = 0
    /\ returned = <<>>
    /\ settled = <<>>
    /\ reported = <<>>
    /\ IdleMembers
    /\ IdleOptimize
    /\ IdlePrepare
    /\ IdleLoad
    /\ IdleBuild
    /\ IdleSave

\* Lines 102-240: the callback of forEach for the next data point.  An exception
\* thrown by self.tick (line 107) leaves the callback, forEach and backtest.
BacktestDataPoint ==
    /\ backtestPc = "loop"
    /\ dataPosition < Len(backtestData)
    /\ dataPoint' = backtestData[dataPosition + 1]
    /\ IF CallThrows("tick")
         THEN /\ backtestPc' = "thrown"
              /\ UNCHANGED <<dataPosition, previousDataPoint, verdicts, putNextTick,
                             callNextTick, consoleLog>>
         ELSE /\ backtestPc' = "loop"
              /\ dataPosition' = dataPosition + 1
              /\ previousDataPoint' = <<dataPoint'>>
              /\ IF QuietHour(GetHours(dataPoint'["timestamp"]))
                   THEN UNCHANGED <<verdicts, putNextTick, callNextTick, consoleLog>>
                   ELSE /\ verdicts' =
                             [k \in 1..Len(selfConfigurations) |->
                                ThisConfiguration(selfConfigurations[k], dataPoint',
                                                  previousDataPoint)]
                        /\ putNextTick' = \E k \in 1..Len(selfConfigurations) : verdicts'[k].put
                        /\ callNextTick' = \E k \in 1..Len(selfConfigurations) : verdicts'[k].call
                        /\ consoleLog' = consoleLog
                                           \o (IF putNextTick' THEN <<"PUT">> ELSE <<>>)
                                           \o (IF callNextTick' THEN <<"CALL">> ELSE <<>>)
    /\ UNCHANGED <<signalPc, selfConfigurations, backtestData, loggedResults>>
    /\ UNCHANGED outsideSignals

\* Line 242: forEach has been through every data point; the results are printed
\* and backtest returns.
BacktestReport ==
    /\ backtestPc = "loop"
    /\ dataPosition >= Len(backtestData)
    /\ loggedResults' = <<GetResultsValue>>
    /\ backtestPc' = "reported"
    /\ UNCHANGED <<signalPc, selfConfigurations, dataPoint, previousDataPoint, verdicts,
                   putNextTick, callNextTick, consoleLog, backtestData, dataPosition>>
    /\ UNCHANGED outsideSignals

NextBacktest ==
    \/ BacktestDataPoint
    \/ BacktestReport

SpecBacktest == InitBacktest /\ [][NextBacktest]_vars

(***************************************************************************)
(* Optimizer::saveTicks and Optimizer::convertTickToBson, document by      *)
(* document.                                                               *)
(*                                                                         *)
(* A Tick is a std::map from field name to double.  A double is kept as    *)
(* its number of halves (3 stands for 1.5), so that the conversion to an   *)
(* int32 of lines 21-22 is the truncation it is.  Every tick handed to     *)
(* saveTicks has the two group keys, which hold whole numbers.             *)
(***************************************************************************)
\* this->symbol
Symbol == "EURUSD"

GroupKeys == {"testingGroups", "validationGroups"}

\* The double that holds the whole number n.
Whole(n) == 2 * n

\* BSON_APPEND_INT32 of a double: the implicit conversion to int32_t drops the
\* fraction.
ToInt32(double) == IF double >= 0 THEN double \div 2 ELSE 0 - ((0 - double) \div 2)

\* The ticks considered: any groups, and none, one or two other fields.
TickOf(testing, validation, names) ==
    [name \in GroupKeys \cup names |->
       CASE name = "testingGroups" -> Whole(testing)
         [] name = "validationGroups" -> Whole(validation)
         [] name = "timestamp" -> Whole(60)
         [] OTHER -> 3]

TickObjects ==
    {TickOf(testing, validation, names) :
       testing \in 0..MaxGroup, validation \in 0..MaxGroup,
       names \in {{}, {"timestamp"}, {"timestamp", "close"}}}

InitSave ==
    /\ savePc = "start"
    /\ saveArgument \in SequencesUpTo(TickObjects, MaxSaved)
    /\ tickObjects = saveArgument
    /\ insertionIterator = 1
    /\ bulkOperation = <<>>
    /\ bulkWrites = <<>>
    /\ IdleMembers
    /\ IdleOptimize
    /\ IdlePrepare
    /\ IdleLoad
    /\ IdleBuild
    /\ IdleBase
    /\ signalPc = "idle"
    /\ selfConfigurations = <<>>
    /\ dataPoint = EmptyMap
    /\ previousDataPoint = <<>>
    /\ verdicts = <<>>
    /\ putNextTick = FALSE
    /\ callNextTick = FALSE
    /\ consoleLog = <<>>
    /\ backtestPc = "idle"
    /\ backtestData = <<>>
    /\ dataPosition = 0
    /\ loggedResults = <<>>

\* tick->erase(key)
EraseNothing(tick, key) == tick
Erase(tick, key) == [name \in DOMAIN tick \ {key} |-> tick[name]]

\* Lines 15-37: the document made of a tick, and the tick as the call leaves it.
ConvertTickToBson(tick) ==
    LET erased == Erase(Erase(tick, "testingGroups"), "validationGroups")
    IN  [document |-> [symbol |-> Symbol,
                       testingGroups |-> ToInt32(tick["testingGroups"]),
                       validationGroups |-> ToInt32(tick["validationGroups"]),
                       data |-> erased],
         tick |-> erased]

\* Lines 40-53: an empty list returns at once; else the bulk operation is begun.
BeginBulk ==
    /\ savePc = "start"
    /\ savePc' = IF Len(tickObjects) = 0 THEN "returned" ELSE "insert"
    /\ UNCHANGED <<saveArgument, tickObjects, insertionIterator, bulkOperation, bulkWrites>>
    /\ UNCHANGED outsideSave

\* Lines 56-60: one tick is converted and inserted.
InsertTick ==
    /\ savePc = "insert"
    /\ insertionIterator <= Len(tickObjects)
    /\ LET converted == ConvertTickToBson(tickObjects[insertionIterator])
       IN  /\ bulkOperation' = Append(bulkOperation, converted.document)
           /\ tickObjects' = [tickObjects EXCEPT ![insertionIterator] = converted.tick]
    /\ insertionIterator' = insertionIterator + 1
    /\ UNCHANGED <<savePc, saveArgument, bulkWrites>>
    /\ UNCHANGED outsideSave

\* Lines 62-69: the bulk operation is executed, whatever its outcome, and
\* saveTicks returns.
ExecuteBulk ==
    /\ savePc = "insert"
    /\ insertionIterator > Len(tickObjects)
    /\ bulkWrites' = Append(bulkWrites, bulkOperation)
    /\ savePc' = "returned"
    /\ UNCHANGED <<saveArgument, tickObjects, insertionIterator, bulkOperation>>
    /\ UNCHANGED outsideSave

NextSave ==
    \/ BeginBulk
    \/ InsertTick
    \/ ExecuteBulk

SpecSave == InitSave /\ [][NextSave]_vars

(***************************************************************************)
(* C1: in optimize, whenever a task for some row has been handed to the    *)
(* pool, every strategy's task for every earlier scheduled row has         *)
(* completed, and all tasks in flight belong to the row being processed.   *)
(***************************************************************************)
C1_Barrier ==
    /\ \A t \in InFlight : t.row = i
    /\ \A u \in submitted :
         \A r \in Range(scheduled) :
           r < u.row => \A s \in Range(strategies) : Task(s, r) \in completed

\* Two tasks of a later row run at once after the first row's tasks all completed.
C1_Witness ==
    /\ Cardinality(poolRunning) = 2
    /\ \A t \in poolRunning : t.row > 0
    /\ \A s \in Range(strategies) : Task(s, 0) \in completed

(***************************************************************************)
(* C2: when optimize has finished, every strategy has received             *)
(* backtest(data[row]) exactly once for every row 0..dataCount-1, in       *)
(* ascending order.                                                        *)
(***************************************************************************)
C2_EveryRowOnce ==
    pc = "done" =>
      \A s \in Range(strategies) : received[s] = Interval(0, dataCount - 1)

(***************************************************************************)
(* C3: when prepareData returns, every input tick has been passed to       *)
(* saveTicks exactly once.                                                 *)
(***************************************************************************)
C3_EveryTickSavedOnce ==
    prepPc = "returned" =>
      \A id \in 1..TickCount(ticks) : Times(Flatten(saveCalls), id) = 1

(***************************************************************************)
(* C6: a step of prepareData that ends a tick with a window of at least    *)
(* HighWater ticks passes exactly the oldest (size - LowWater) ticks to    *)
(* saveTicks, deletes exactly those ticks, and leaves the newest LowWater  *)
(* ticks in order, min(size, LowWater) of them; no kept tick is deleted    *)
(* and no saved tick is kept.                                              *)
(***************************************************************************)
C6_Eviction ==
    [][ (prepPc = "studies" /\ prepPc' = "next" /\ Size(cumulativeTicks) >= HighWater) =>
          LET size == Size(cumulativeTicks)
              oldest == Slice(cumulativeTicks, 1, size - LowWater)
          IN  /\ saveCalls' = Append(saveCalls, oldest)
              /\ freed' = Concat(freed, oldest)
              /\ cumulativeTicks' = Slice(cumulativeTicks, size - LowWater + 1, size)
              /\ Size(cumulativeTicks') = Min(size, LowWater)
              /\ Disjoint(cumulativeTicks', freed')
              /\ Disjoint(cumulativeTicks', Flatten(saveCalls'))
      ]_vars

\* The state after the first eviction of an input without gaps.
C6_Witness ==
    /\ prepPc = "next"
    /\ tickIterator = HighWater + 1
    /\ cumulativeTicks = Ids(HighWater - LowWater + 1, HighWater)
    /\ saveCalls = <<Ids(1, HighWater - LowWater)>>
    /\ freed = Ids(1, HighWater - LowWater)

(***************************************************************************)
(* C7: a step of prepareData that takes a tick whose timestamp exceeds     *)
(* that of the window's last tick (the tick before it) by more than MaxGap *)
(* passes the whole window to saveTicks and deletes it before the tick is  *)
(* appended, and every study's tick() for that tick reads a window holding *)
(* only that tick; with a difference of MaxGap or less nothing is saved or *)
(* deleted and the tick is appended to the window as it is.                *)
(***************************************************************************)
C7_GapFlush ==
    [][ /\ (prepPc = "next" /\ prepPc' = "studies") =>
             LET tick == tickIterator
                 window == cumulativeTicks
             IN  /\ window # <<>> => Back(window) = tick - 1
                 /\ IF window # <<>> /\ Timestamp(tick) - Timestamp(Back(window)) > MaxGap
                      THEN /\ saveCalls' = Append(saveCalls, window)
                           /\ freed' = Concat(freed, window)
                           /\ cumulativeTicks' = Ids(tick, tick)
                      ELSE /\ cumulativeTicks' = Concat(window, Ids(tick, tick))
                           /\ UNCHANGED <<saveCalls, freed>>
        /\ (prepPc = "studies" /\ pendingStudies' # pendingStudies) =>
             \A s \in pendingStudies \ pendingStudies' :
               (tickIterator >= 2
                  /\ Timestamp(tickIterator) - Timestamp(tickIterator - 1) > MaxGap)
                 => studyView'[s] = Ids(tickIterator, tickIterator)
      ]_vars

\* A study has read the window of a tick that came after a gap, and the window
\* before it, of two ticks exactly MaxGap apart, was saved and deleted whole.
C7_Witness ==
    /\ prepPc = "studies"
    /\ tickIterator = 3
    /\ Timestamp(2) - Timestamp(1) = MaxGap
    /\ Timestamp(3) - Timestamp(2) = MaxGap + 1
    /\ \E s \in Studies \ pendingStudies : studyView[s] = Ids(3, 3)
    /\ cumulativeTicks = Ids(3, 3)
    /\ saveCalls = <<Ids(1, 2)>>
    /\ freed = Ids(1, 2)

(***************************************************************************)
(* C8: when loadData has returned on a symbol with at least one stored     *)
(* document, dataIndex maps every field name of the first document to its  *)
(* position in the document's iteration order, and holds nothing else.     *)
(***************************************************************************)
C8_IndexFromFirstRow ==
    (loadPc = "returned" /\ Len(storedRows) >= 1) =>
      /\ DOMAIN dataIndex = Range(storedRows[1])
      /\ \A k \in 1..Len(storedRows[1]) : dataIndex[storedRows[1][k]] = k - 1

(***************************************************************************)
(* C10: when no document is stored for the symbol, loadData does not       *)
(* return normally.                                                        *)
(***************************************************************************)
C10_ZeroRowsIsFatal ==
    Len(storedRows) = 0 => loadPc # "returned"

(***************************************************************************)
(* C4: for an option specification with at least one axis, the number of   *)
(* pointers buildMapConfigurations returns, and the number of              *)
(* configurations buildConfigurations returns, is the product of the       *)
(* axes' candidate counts.                                                 *)
(***************************************************************************)
RECURSIVE CandidateProduct(_)
CandidateProduct(axes) ==
    IF axes = <<>> THEN 1 ELSE Len(Head(axes)) * CandidateProduct(Tail(axes))

C4_CountIsProduct ==
    Len(options) >= 1 =>
      /\ buildPc \in {"mapped", "built", "thrown"} =>
           Len(results) = CandidateProduct(options)
      /\ buildPc = "built" => Len(configurations) = CandidateProduct(options)

\* Two axes of two candidates each gave four configurations.
C4_Witness ==
    /\ buildPc = "built"
    /\ Len(options) = 2
    /\ Len(options[1]) = 2
    /\ Len(options[2]) = 2
    /\ Len(configurations) = 4

(***************************************************************************)
(* C5: the pointers buildMapConfigurations returns are distinct, and the   *)
(* k-th points to a map holding exactly the fields of the k-th combination *)
(* of candidates (axes in order, candidates in order within an axis).      *)
(***************************************************************************)
\* The fields of a candidate with every column name replaced by its index.
Resolved(candidate) ==
    [f \in DOMAIN candidate |->
       IF candidate[f].type = "string"
         THEN IntValue(dataIndex[candidate[f].name])
         ELSE DoubleValue(candidate[f].value)]

Merged(partial, fields) ==
    [f \in DOMAIN partial \cup DOMAIN fields |->
       IF f \in DOMAIN fields THEN fields[f] ELSE partial[f]]

\* The combinations of the candidates c.. of the first axis with those of the
\* other axes, each merged into `partial`, in enumeration order.
RECURSIVE Combinations(_, _, _)
Combinations(axes, c, partial) ==
    IF axes = <<>> THEN <<partial>>
    ELSE IF c > Len(Head(axes)) THEN <<>>
    ELSE Combinations(Tail(axes), 1, Merged(partial, Resolved(Head(axes)[c])))
           \o Combinations(axes, c + 1, partial)

C5_DistinctCompleteConfigurations ==
    (buildPc = "mapped" /\ Len(options) >= 1) =>
      LET expected == Combinations(options, 1, EmptyMap)
      IN  /\ Len(results) = Len(expected)
          /\ \A j, k \in 1..Len(results) : j # k => results[j] # results[k]
          /\ \A k \in 1..Len(results) : mapObjects[results[k]] = expected[k]

(***************************************************************************)
(* C9: when a candidate names a column that dataIndex does not hold,       *)
(* configuration building does not complete: no list of pointers and no    *)
(* list of configurations is returned.                                     *)
(***************************************************************************)
C9_UnknownColumnIsFatal ==
    buildPc \in {"mapped", "built"} =>
      \A a \in 1..Len(options) : \A c \in 1..Len(options[a]) :
        \A f \in DOMAIN options[a][c] :
          options[a][c][f].type = "string" => options[a][c][f].name \in DOMAIN entryIndex

(***************************************************************************)
(* C11: when a stored document after the first has a field set other than  *)
(* the first document's, loadData does not return normally.                *)
(***************************************************************************)
C11_SchemaMismatchIsFatal ==
    (\E r \in 2..Len(storedRows) : Range(storedRows[r]) # Range(storedRows[1]))
      => loadPc # "returned"

(***************************************************************************)
(* C12: for an option specification with an axis of zero candidates, at    *)
(* any position, buildMapConfigurations returns no pointer and             *)
(* buildConfigurations returns no configuration.                           *)
(***************************************************************************)
C12_EmptyAxisGivesNothing ==
    (\E a \in 1..Len(options) : Len(options[a]) = 0) =>
      /\ buildPc \in {"mapped", "built", "thrown"} => results = <<>>
      /\ buildPc = "built" => configurations = <<>>

\* Two candidates of the first axis were each followed into an empty second axis.
C12_Witness ==
    /\ buildPc = "built"
    /\ Len(options) = 2
    /\ Len(options[1]) = 2
    /\ Len(options[2]) = 0
    /\ results = <<>>
    /\ configurations = <<>>

(***************************************************************************)
(* C13: once the preparation loop of optimize has ended, `strategies`      *)
(* holds one strategy per configuration, in configuration order.           *)
(***************************************************************************)
C13_OneStrategyPerConfiguration ==
    pc \in {"loop", "submit", "drain", "done"} =>
      strategies = Interval(1, Len(configurations))

(***************************************************************************)
(* C14: for every pool size and every interleaving of the pool's tasks,    *)
(* the backtest calls a strategy has received are an initial part of the   *)
(* calls of a single-threaded run over the same rows (all of them once     *)
(* optimize is done), and a call starts only after the strategy's earlier  *)
(* calls have returned.                                                    *)
(***************************************************************************)
\* The rows a run without a pool passes to backtest, from loop counter `from`.
RECURSIVE SingleThreaded(_, _)
SingleThreaded(from, count) ==
    IF from < count
      THEN <<from>> \o SingleThreaded(LoopIncrement(ProgressIncrement(from)), count)
      ELSE <<>>

C14_Deterministic ==
    \A s \in Range(strategies) :
      LET alone == SingleThreaded(0, dataCount)
          calls == received[s]
      IN  /\ Len(calls) <= Len(alone)
          /\ \A k \in 1..Len(calls) : calls[k] = alone[k]
          /\ pc = "done" => calls = alone
          /\ \A k \in 1..(Len(calls) - 1) : Task(s, calls[k]) \in completed

\* Two workers run the second call of two strategies at the same time.
C14_Witness ==
    /\ threadCount = 2
    /\ Len(strategies) = 2
    /\ poolRunning = {Task(1, 2), Task(2, 2)}
    /\ \A s \in Range(strategies) : received[s] = <<0, 2>>

(***************************************************************************)
(* C15: in every state a strategy reaches, getWinRate gives 0 when         *)
(* winCount + loseCount = 0 and otherwise the quotient of winCount by      *)
(* winCount + loseCount, a quotient with a divisor above zero and a value  *)
(* from 0 to 1; and what getResults reports has tradeCount = winCount +    *)
(* loseCount and that win rate.                                            *)
(***************************************************************************)
C15_WinRate ==
    basePc = "live" =>
      LET rate == GetWinRate(winCount, loseCount)
      IN  /\ rate.divisor > 0
          /\ 0 <= rate.dividend /\ rate.dividend <= rate.divisor
          /\ winCount + loseCount = 0 => rate.dividend = 0
          /\ winCount + loseCount # 0 =>
               rate.dividend * (winCount + loseCount) = winCount * rate.divisor
          /\ \A k \in 1..Len(reported) :
               /\ reported[k].tradeCount = reported[k].winCount + reported[k].loseCount
               /\ reported[k].winRate.divisor > 0
               /\ 0 <= reported[k].winRate.dividend
               /\ reported[k].winRate.dividend <= reported[k].winRate.divisor
               /\ reported[k].winRate.dividend * reported[k].tradeCount
                    = reported[k].winCount * reported[k].winRate.divisor

\* getResults reported one win in two trades.
C15_Witness ==
    /\ basePc = "live"
    /\ winCount = 1
    /\ loseCount = 1
    /\ reported # <<>>
    /\ reported[1].tradeCount = 2
    /\ reported[1].winRate = Quotient(1, 2)

(***************************************************************************)
(* C16 as stated: a configuration with the ema200, ema100, ema50 and sma13 *)
(* rules gives no PUT for a data point whose ema200 is greater than or     *)
(* equal to its ema100.                                                    *)
(***************************************************************************)
TrendRulesOn(configuration) ==
    configuration.ema200 /\ configuration.ema100 /\ configuration.ema50 /\ configuration.sma13

C16_NoPutUnlessSlowBelow ==
    signalPc = "signalled" =>
      \A k \in 1..Len(selfConfigurations) :
        (/\ TrendRulesOn(selfConfigurations[k])
         /\ {"ema200", "ema100"} \subseteq DOMAIN dataPoint
         /\ dataPoint["ema200"] >= dataPoint["ema100"])
          => ~verdicts[k].put

(***************************************************************************)
(* C16 as amended: a configuration with the ema200, ema100, ema50 and      *)
(* sma13 rules gives no PUT for a data point whose ema200 is less than its *)
(* ema100.                                                                 *)
(***************************************************************************)
C16_NoPutWhenSlowBelow ==
    signalPc = "signalled" =>
      \A k \in 1..Len(selfConfigurations) :
        (/\ TrendRulesOn(selfConfigurations[k])
         /\ {"ema200", "ema100"} \subseteq DOMAIN dataPoint
         /\ dataPoint["ema200"] < dataPoint["ema100"])
          => ~verdicts[k].put

\* ema200 below ema100 alone ruled the PUT out: the other averages are level,
\* and the CALL went through.
C16_Witness ==
    /\ signalPc = "signalled"
    /\ selfConfigurations = <<TrendChain>>
    /\ DOMAIN dataPoint = {"high", "low", "ema200", "ema100", "ema50", "sma13"}
    /\ dataPoint["ema200"] = 1
    /\ dataPoint["ema100"] = 2
    /\ dataPoint["ema50"] = 2
    /\ dataPoint["sma13"] = 2
    /\ verdicts = <<Flags(FALSE, TRUE)>>
    /\ consoleLog = <<"CALL">>

(***************************************************************************)
(* C17: a step of the rules gives neither a PUT nor a CALL for a           *)
(* configuration when the data point lacks a field that configuration's    *)
(* rules read, or when the rules read a regression and there is no data    *)
(* point before or it lacks the regression.                                *)
(***************************************************************************)
C17_AbsentFieldNoTrade ==
    [][ (signalPc = "rules" /\ signalPc' = "signalled") =>
          \A k \in 1..Len(selfConfigurations) :
            LET configuration == selfConfigurations[k]
                lacking ==
                  \/ \E name \in FieldsRead(configuration) : name \notin DOMAIN dataPoint
                  \/ \E o \in Range(configuration.trendPrChannel) :
                       \/ previousDataPoint = <<>>
                       \/ \E q \in Range(previousDataPoint) : o.regression \notin DOMAIN q
            IN  lacking => (~verdicts'[k].put /\ ~verdicts'[k].call)
      ]_vars

\* Every rule is on and only the rsi is missing from a data point whose other
\* fields rule nothing out but the regression, at most.
C17_Witness ==
    /\ signalPc = "signalled"
    /\ selfConfigurations = <<EveryRule>>
    /\ DOMAIN dataPoint = {"high", "low"} \cup (Range(IndicatorFields) \ {"rsi7"})
    /\ dataPoint["ema200"] = dataPoint["ema100"]
    /\ dataPoint["ema100"] = dataPoint["ema50"]
    /\ dataPoint["ema50"] = dataPoint["sma13"]
    /\ dataPoint["prChannelUpper100_2_195"] < dataPoint["high"]
    /\ dataPoint["prChannelLower100_2_195"] > dataPoint["low"]
    /\ verdicts = <<Flags(FALSE, FALSE)>>
    /\ consoleLog = <<>>

(***************************************************************************)
(* C18: when saveTicks has returned, an empty list has caused no bulk      *)
(* write and a non-empty list exactly one, of one document per tick in the *)
(* order of the list; each document has the symbol and the tick's two      *)
(* groups at the top level and a data map of exactly the tick's other      *)
(* fields with their values.                                               *)
(***************************************************************************)
C18_StoredDocuments ==
    savePc = "returned" =>
      IF saveArgument = <<>> THEN bulkWrites = <<>>
      ELSE /\ Len(bulkWrites) = 1
           /\ Len(bulkWrites[1]) = Len(saveArgument)
           /\ \A k \in 1..Len(saveArgument) :
                LET document == bulkWrites[1][k]
                    tick == saveArgument[k]
                IN  /\ document.symbol = Symbol
                    /\ Whole(document.testingGroups) = tick["testingGroups"]
                    /\ Whole(document.validationGroups) = tick["validationGroups"]
                    /\ DOMAIN document.data = DOMAIN tick \ GroupKeys
                    /\ \A name \in DOMAIN document.data : document.data[name] = tick[name]

\* Two ticks of different groups and fields were written by one bulk operation.
C18_Witness ==
    /\ savePc = "returned"
    /\ saveArgument = <<TickOf(0, 1, {"timestamp", "close"}), TickOf(1, 0, {"timestamp"})>>
    /\ Len(bulkWrites) = 1
    /\ Len(bulkWrites[1]) = 2
    /\ bulkWrites[1][1].testingGroups = 0
    /\ bulkWrites[1][1].validationGroups = 1
    /\ DOMAIN bulkWrites[1][1].data = {"timestamp", "close"}
    /\ bulkWrites[1][2].testingGroups = 1
    /\ DOMAIN bulkWrites[1][2].data = {"timestamp"}

(***************************************************************************)
(* C19: every bulk write of saveTicks that failed has been reported by a   *)
(* warning; and, failed writes or not, the ticks freed are the ticks       *)
(* handed to saveTicks and prepareData returns only after every tick of    *)
(* the input has been through the studies.                                 *)
(***************************************************************************)
C19_FailedWriteWarned ==
    /\ Len(warnings) = Cardinality(failedWrites)
    /\ freed = Flatten(saveCalls)
    /\ prepPc = "returned" => merged = Ids(1, TickCount(ticks))

(***************************************************************************)
(* C20: a step of prepareData taken while a study's task is in flight      *)
(* leaves the window, the ticks saved, the ticks freed and the ticks       *)
(* merged into as they are; and a step of optimize taken while a backtest  *)
(* task is in flight leaves the matrix as it is.                           *)
(***************************************************************************)
C20_SharedStateStill ==
    [][ /\ pendingStudies # {} =>
             UNCHANGED <<cumulativeTicks, saveCalls, freed, merged>>
        /\ InFlight # {} => UNCHANGED <<data, dataCount>>
      ]_vars

\* After an eviction, one study has read the window of the next tick and the
\* other study's task is still in flight.
C20_Witness ==
    /\ prepPc = "studies"
    /\ tickIterator = HighWater + 1
    /\ Cardinality(pendingStudies) = 1
    /\ \E s \in Studies \ pendingStudies : studyView[s] = cumulativeTicks
    /\ Size(cumulativeTicks) = LowWater + 1
    /\ freed = Ids(1, HighWater - LowWater)

(***************************************************************************)
(* C21: the configuration builders leave dataIndex as loadData left it:    *)
(* the same keys, and every key's index unchanged.                         *)
(***************************************************************************)
C21_ColumnIndexKept ==
    /\ DOMAIN dataIndex = DOMAIN entryIndex
    /\ \A name \in DOMAIN entryIndex : dataIndex[name] = entryIndex[name]

\* No tick occurs twice in the list.
NoRepeats(list) ==
    \A j, k \in 1..Len(list) :
      j # k => (list[j].hi < list[k].lo \/ list[k].hi < list[j].lo)

\* Every run of list a lies inside a run of list b.
Within(a, b) ==
    \A j \in 1..Len(a) : \E k \in 1..Len(b) : b[k].lo <= a[j].lo /\ a[j].hi <= b[k].hi

(***************************************************************************)
(* C22: in prepareData every tick deleted has been passed to saveTicks by  *)
(* then, no tick is deleted twice, no deleted tick is in the window, and   *)
(* the window a study's tick() reads holds no deleted tick.                *)
(***************************************************************************)
C22_FreedOnceAfterSaved ==
    /\ [](/\ Within(freed, Flatten(saveCalls))
          /\ NoRepeats(freed)
          /\ Disjoint(cumulativeTicks, freed))
    /\ [][ \A s \in pendingStudies \ pendingStudies' :
             Disjoint(studyView'[s], freed') ]_vars

\* After a gap flush and an eviction, every study has read the window of the
\* next tick.
C22_Witness ==
    /\ prepPc = "studies"
    /\ pendingStudies = {}
    /\ Len(saveCalls) = 2
    /\ Size(saveCalls[1]) = 1
    /\ Size(freed) = LowWater + 1
    /\ Size(cumulativeTicks) = LowWater + 1
    /\ \A s \in Studies : studyView[s] = cumulativeTicks

(***************************************************************************)
(* C23: a call closeExpiredPositions(price, timestamp) leaves in           *)
(* openPositions exactly the positions that were open and have not         *)
(* expired at the timestamp, in their order, and returns exactly the open  *)
(* positions that have expired.                                            *)
(***************************************************************************)
C23_ExpiredLeaveOpenPositions ==
    [][ closeCalls' # closeCalls =>
          LET Expired(id) == GetHasExpired(positionsMade[id], clock')
              Unexpired(id) == ~Expired(id)
          IN  /\ openPositions' = SelectSeq(openPositions, Unexpired)
              /\ returned' = SelectSeq(openPositions, Expired)
      ]_vars

\* How many times position id has been settled.
SettledTimes(list, id) == Cardinality({k \in 1..Len(list) : list[k][1] = id})

(***************************************************************************)
(* C24: no position is closed or counted more than once; every position    *)
(* handed to addPosition is still open or has been settled; and a call of  *)
(* closeExpiredPositions leaves settled every position that has expired by *)
(* its timestamp.                                                          *)
(***************************************************************************)
C24_SettledOnce ==
    /\ [](\A id \in 1..Len(positionsMade) :
            /\ SettledTimes(settled, id) <= 1
            /\ positionsMade[id].closes <= 1
            /\ (id \in Range(openPositions) \/ SettledTimes(settled, id) = 1))
    /\ [][ closeCalls' # closeCalls =>
             \A id \in 1..Len(positionsMade) :
               GetHasExpired(positionsMade[id], clock') => SettledTimes(settled', id) = 1
         ]_vars

\* The sum over the settlements of the list of (profit/loss - investment).
RECURSIVE NetOf(_)
NetOf(list) ==
    IF list = <<>> THEN 0 ELSE (Head(list)[2] - Investment) + NetOf(Tail(list))

\* The settlements of the list whose profit/loss is in the set.
Outcomes(list, amounts) == {k \in 1..Len(list) : list[k][2] \in amounts}

Winless(list, from, to) == \A k \in from..to : list[k][2] <= Investment

\* The number of losses among the settlements from..to of the list.
LossesIn(list, from, to) == Cardinality({k \in from..to : list[k][2] = 0})

\* The largest number of the set of naturals, 0 for the empty set.
Largest(S) == IF S = {} THEN 0 ELSE CHOOSE n \in S : \A m \in S : m <= n

\* The longest run of losses that no win interrupts, and the run at the end.
LongestLossRun(list) ==
    Largest({LossesIn(list, from, to) :
               <<from, to>> \in {w \in (1..Len(list)) \X (1..Len(list)) :
                                   w[1] <= w[2] /\ Winless(list, w[1], w[2])}})
LossRunAtEnd(list) ==
    Largest({LossesIn(list, from, Len(list)) :
               from \in {f \in 1..Len(list) : Winless(list, f, Len(list))}})

(***************************************************************************)
(* C26: 0 <= consecutiveLosses <= maximumConsecutiveLosses <= loseCount;   *)
(* maximumConsecutiveLosses is the longest run of settled losses that no   *)
(* win interrupts and never decreases; consecutiveLosses is the run of     *)
(* losses since the latest win (ties not counted) and falls only in a call *)
(* that settles a win.                                                     *)
(***************************************************************************)
C26_LossStreaks ==
    /\ [](/\ 0 <= consecutiveLosses
          /\ consecutiveLosses <= maximumConsecutiveLosses
          /\ maximumConsecutiveLosses <= loseCount
          /\ maximumConsecutiveLosses = LongestLossRun(settled)
          /\ consecutiveLosses = LossRunAtEnd(settled))
    /\ [][ /\ maximumConsecutiveLosses' >= maximumConsecutiveLosses
           /\ consecutiveLosses' < consecutiveLosses =>
                \E k \in (Len(settled) + 1)..Len(settled') : settled'[k][2] > Investment
         ]_vars

\* A loss, a tie and a loss have been settled: the tie has not ended the streak.
C26_Witness ==
    /\ Len(settled) = 3
    /\ settled[1][2] = 0
    /\ settled[2][2] = Investment
    /\ settled[3][2] = 0
    /\ consecutiveLosses = 2
    /\ maximumConsecutiveLosses = 2

(***************************************************************************)
(* C27: loadData writes no data[r][c] outside allocated storage: every row *)
(* written is one of the dataCount rows counted, and no write falls at a   *)
(* column at or past getDataPropertyCount().                               *)
(***************************************************************************)
C27_WritesInBounds ==
    /\ loadPc \in {"rows", "returned", "crashed"} => Len(data) <= dataCount
    /\ outOfBounds = {}

(***************************************************************************)
(* C28: ReversalsCombined.backtest does not end with an exception, and     *)
(* when it has reported the results it has been through every data point   *)
(* of its argument.                                                        *)
(***************************************************************************)
C28_BacktestReports ==
    /\ backtestPc # "thrown"
    /\ backtestPc = "reported" =>
         /\ dataPosition = Len(backtestData)
         /\ loggedResults # <<>>

====
